---- MODULE Spec2Model ----
(***************************************************************************)
(* OneVote: vote casting (PollsService), results aggregation and the TTL   *)
(* cache (ResultsService), and the vote event channel (voteEvents$).       *)
(*                                                                         *)
(* Time is counted in minutes.  The cache TTL is configured through        *)
(* RESULTS_CACHE_TTL_SECONDS; the model runs with a TTL of CacheTtl        *)
(* minutes.  The velocity window is the fixed 5 minutes of the code.       *)
(*                                                                         *)
(* Every `await` on the store is an interleaving point: a query or a       *)
(* transaction takes effect in the store in one step, and the code after   *)
(* the await runs in a later step.  Three awaits are folded into the step  *)
(* next to them, because nothing another request does can be told apart    *)
(* on either side of them: a poll lookup and the code that follows it      *)
(* (polls are immutable), the arrival of a request and its first poll      *)
(* lookup, and a rejected insert and the catch block that answers it.      *)
(***************************************************************************)
EXTENDS Integers, Sequences, FiniteSets, TLC

\* ---------------------------------------------------------------- bounds
MaxPolls == 2         \* polls in the store
MaxVoters == 2        \* distinct userUuid values
MaxVoteCalls == 2     \* castVote requests
MaxResultCalls == 2   \* GET /results requests
MaxTime == 2          \* the clock runs from 0 to MaxTime
CacheTtl == 1         \* cacheTtlMs, in minutes
CloseTime == 1        \* closesAt of the polls in the store
MaxStreams == 2       \* GET /stream requests
MaxHeartbeats == 1    \* heartbeat messages written to one connection
MaxCreateCalls == 2   \* createPoll requests
MaxVotes == 3         \* rows of a votes table the aggregation is given
MaxOptions == 3       \* options in one create-poll body

\* ------------------------------------------------------- program constants
VelocityWindow == 5
OptionTexts == <<"A", "B">>
OptionsPerPoll == Len(OptionTexts)

PollIds == 1..MaxPolls
MissingPoll == MaxPolls + 1
VoteCalls == 1..MaxVoteCalls
ResultCalls == 1..MaxResultCalls
StreamCalls == 1..MaxStreams
CreateCalls == 1..MaxCreateCalls

\* option ids are unique over the whole store (uuid primary keys)
OptionId(p, k) == (p - 1) * OptionsPerPoll + k

\* the castVote requests that pass every check: one on the visible poll 1 and
\* one on the hidden poll 2
ValidVoteRequests == {<<1, OptionId(1, 1), 1>>, <<2, OptionId(2, 1), 1>>}

\* the castVote requests the clients send: <<pollId, optionId, userUuid>>.
\* Two voters and two options on poll 1, an option of poll 2 offered to
\* poll 1, a vote on the hidden poll 2, and a vote on a poll that is not there
VoteRequests ==
  {<<1, OptionId(1, 1), 1>>, <<1, OptionId(1, 2), 1>>, <<1, OptionId(1, 1), MaxVoters>>,
   <<1, OptionId(2, 1), 1>>, <<2, OptionId(2, 1), 1>>, <<MissingPoll, OptionId(1, 1), 1>>}

\* a Poll row with its eagerly loaded options
PollRow(p, closesAt, hide) ==
  [id |-> p, closesAt |-> closesAt, hideResultsUntilClose |-> hide,
   options |-> [k \in 1..OptionsPerPoll |->
                  [id |-> OptionId(p, k), text |-> OptionTexts[k]]]]

\* the polls the store holds when the process starts: odd polls show their
\* results, even polls hide them until they close
StoredPolls == [p \in PollIds |-> PollRow(p, CloseTime, p % 2 = 0)]

VARIABLES
  now,         \* the wall clock (new Date(), Date.now())
  polls,       \* the polls table, with options
  votes,       \* the votes table, in commit order
  cache,       \* ResultsService.cache: pollId -> CacheEntry
  voteEvents,  \* the events emitted on PollsService.voteEvents$
  vcall,       \* the castVote requests
  bcast,       \* the broadcastVoteEvent task of each castVote request
  rcall,       \* the GET /results requests
  obs,         \* what an observer noted when a GET /results request arrived
  scall,       \* the GET /stream requests with their connections
  pcall,       \* the createPoll requests
  unswept      \* the cache of the same requests had cleanupExpiredCache never run

vars == <<now, polls, votes, cache, voteEvents, vcall, bcast, rcall, obs, scall, pcall,
          unswept>>

NoResult == [none |-> TRUE]

\* ------------------------------------------------------------ aggregation

\* Math.round(a / b) for a >= 0, b > 0
RoundDiv(a, b) == (2 * a + b) \div (2 * b)

\* Date.toISOString()
ToISOString(t) == [iso |-> t]

\* mutant: the votes query has no where clause on the poll
FetchAllVotesOfAllPolls(p, n) == SubSeq(votes, 1, n)

\* fetchAllVotesForPoll, evaluated on the first n rows of the votes table
FetchAllVotesForPoll(p, n) ==
  SelectSeq(SubSeq(votes, 1, n), LAMBDA v : v.pollId = p)

CountVotesByOption(poll, vs) ==
  [k \in 1..OptionsPerPoll |->
     Cardinality({i \in 1..Len(vs) : vs[i].optionId = poll.options[k].id})]

\* mutant: the percentage is cut after two decimals, not rounded
BuildOptionResultsTruncated(poll, voteCounts, totalVotes) ==
  [k \in 1..OptionsPerPoll |->
     [optionId |-> poll.options[k].id,
      text |-> poll.options[k].text,
      count |-> voteCounts[k],
      percentage |-> IF totalVotes > 0
                       THEN (voteCounts[k] * 10000) \div totalVotes
                       ELSE 0]]

\* percentages are kept in hundredths: Math.round(percentage * 100) / 100
BuildOptionResults(poll, voteCounts, totalVotes) ==
  [k \in 1..OptionsPerPoll |->
     [optionId |-> poll.options[k].id,
      text |-> poll.options[k].text,
      count |-> voteCounts[k],
      percentage |-> IF totalVotes > 0
                       THEN RoundDiv(voteCounts[k] * 10000, totalVotes)
                       ELSE 0]]

\* mutant: a vote exactly as old as the window is left out
CalculateVoteVelocityExclusive(vs, t) ==
  LET recentVotes == {i \in 1..Len(vs) : vs[i].createdAt > t - VelocityWindow}
  IN RoundDiv(Cardinality(recentVotes) * 100, 5)

\* velocity in hundredths of a vote per minute
CalculateVoteVelocity(vs, t) ==
  LET recentVotes == {i \in 1..Len(vs) : vs[i].createdAt >= t - VelocityWindow}
  IN RoundDiv(Cardinality(recentVotes) * 100, 5)

ComputeResults(poll, vs, t) ==
  [total |-> Len(vs),
   options |-> BuildOptionResults(poll, CountVotesByOption(poll, vs), Len(vs)),
   voteVelocityPerMinLast5 |-> CalculateVoteVelocity(vs, t)]

\* mutant: the poll still hides its results at the close time itself
ShouldHideResultsAtClose(poll, t) == poll.hideResultsUntilClose /\ t <= poll.closesAt

ShouldHideResults(poll, t) == poll.hideResultsUntilClose /\ t < poll.closesAt

CreateHiddenResultsResponse(poll) ==
  [hidden |-> TRUE, closesAt |-> ToISOString(poll.closesAt)]

\* a response is the hidden variant or a PollResultsDto
IsHidden(results) == "hidden" \in DOMAIN results
IsAggregate(results) == "total" \in DOMAIN results

\* ------------------------------------------------------------------ cache

\* mutant: an entry exactly one TTL old counts as expired
IsExpiredAtTtl(entry, t) == t - entry.timestamp >= CacheTtl

\* mutant: every entry counts as expired, each read recomputes
IsExpiredAlways(entry, t) == t - entry.timestamp >= 0

\* mutant: an entry never expires
IsExpiredNever(entry, t) == FALSE

IsExpired(entry, t) == t - entry.timestamp > CacheTtl

CacheHit(p, t) == p \in DOMAIN cache /\ ~IsExpired(cache[p], t)

Without(c, p) == [q \in (DOMAIN c) \ {p} |-> c[q]]

\* mutant: the whole cache is cleared
InvalidateCacheOfAllPolls(c, p) == <<>>

\* invalidateCache
InvalidateCache(c, p) == Without(c, p)

\* getCachedResults on the Map c: an expired entry of poll p is deleted
AfterLookup(c, p, t) ==
  IF p \in DOMAIN c /\ IsExpired(c[p], t) THEN Without(c, p) ELSE c

\* the cache after getCachedResults: an expired entry is deleted
AfterGetCachedResults(p, t) ==
  IF p \in DOMAIN cache /\ IsExpired(cache[p], t) THEN Without(cache, p) ELSE cache

\* setCachedResults
SetCachedResults(c, p, results, t) ==
  [q \in (DOMAIN c) \cup {p} |->
     IF q = p THEN [data |-> results, timestamp |-> t] ELSE c[q]]

\* mutant: the sweep also removes the entries whose age equals the TTL
CleanupExpiredAtTtl(c, t) == [q \in {q \in DOMAIN c : t - c[q].timestamp < CacheTtl} |-> c[q]]

\* cleanupExpiredCache: the entries older than the TTL are deleted
CleanupExpired(c, t) == [q \in {q \in DOMAIN c : ~IsExpired(c[q], t)} |-> c[q]]

\* ------------------------------------------------------------------- init

IdleVote == [pc |-> "idle", pollId |-> 0, optionId |-> 0, userUuid |-> 0,
             error |-> "none", status |-> "none"]
IdleBroadcast == [pc |-> "none", n |-> 0, outcome |-> "none"]
IdleResult == [pc |-> "idle", pollId |-> 0, n |-> 0, age |-> 0,
               source |-> "none", status |-> "none", result |-> NoResult]

IdleStream == [pc |-> "idle", pollId |-> 0, open |-> FALSE, subscription |-> FALSE,
               heartbeatTimer |-> FALSE, n |-> 0, status |-> "none", written |-> <<>>]
IdleCreate == [pc |-> "idle", dto |-> NoResult, status |-> "none", pollId |-> 0,
               checkedAt |-> 0, createdAt |-> 0]

Init ==
  /\ now = 0
  /\ polls = StoredPolls
  /\ votes = <<>>
  /\ cache = <<>>
  /\ unswept = <<>>
  /\ voteEvents = <<>>
  /\ vcall = [c \in VoteCalls |-> IdleVote]
  /\ bcast = [c \in VoteCalls |-> IdleBroadcast]
  /\ rcall = [r \in ResultCalls |-> IdleResult]
  /\ obs = [r \in ResultCalls |-> [at |-> 0, acked |-> 0]]
  /\ scall = [s \in StreamCalls |-> IdleStream]
  /\ pcall = [k \in CreateCalls |-> IdleCreate]

\* ------------------------------------------------------------------ clock

Tick ==
  /\ now < MaxTime
  /\ now' = now + 1
  /\ UNCHANGED <<polls, votes, cache, unswept, voteEvents, vcall, bcast, rcall, obs, scall, pcall>>

\* --------------------------------------------------------------- castVote

\* mutant: the option is looked up by its id alone, in any poll
HasOptionInAnyPoll(poll, optionId) ==
  \E q \in DOMAIN polls : \E k \in 1..OptionsPerPoll : polls[q].options[k].id = optionId

HasOption(poll, optionId) ==
  \E k \in 1..OptionsPerPoll : poll.options[k].id = optionId

\* mutant: a vote at the close time itself is still accepted
ValidateVoteAtClose(p, optionId, t) ==
  IF p \notin DOMAIN polls THEN "NotFound"
  ELSE IF t > polls[p].closesAt THEN "Closed"
  ELSE IF ~HasOption(polls[p], optionId) THEN "NotFound"
  ELSE "save"

\* mutant: the option is checked before the close time
ValidateVoteOptionFirst(p, optionId, t) ==
  IF p \notin DOMAIN polls THEN "NotFound"
  ELSE IF ~HasOption(polls[p], optionId) THEN "NotFound"
  ELSE IF t >= polls[p].closesAt THEN "Closed"
  ELSE "save"

\* mutant: validateOptionBelongsToPoll is not called
ValidateVoteWithoutOptionCheck(p, optionId, t) ==
  IF p \notin DOMAIN polls THEN "NotFound"
  ELSE IF t >= polls[p].closesAt THEN "Closed"
  ELSE "save"

\* castVote, lines 138-145: the outcome of the poll lookup and the two checks
\* that follow it; "save" when the request goes on to the insert
ValidateVote(p, optionId, t) ==
  IF p \notin DOMAIN polls THEN "NotFound"
  ELSE IF t >= polls[p].closesAt THEN "Closed"
  ELSE IF ~HasOption(polls[p], optionId) THEN "NotFound"
  ELSE "save"

\* mutant: the votes table has no unique index
TransactionWithoutIndex(vs, row) == [votes |-> Append(vs, row), error |-> "none"]

\* mutant: the row is written before the index is checked and is not rolled
\* back when the index rejects it
TransactionWithoutRollback(vs, row) ==
  [votes |-> Append(vs, row),
   error |-> IF \E i \in 1..Len(vs) :
                   vs[i].pollId = row.pollId /\ vs[i].userUuid = row.userUuid
               THEN "unique" ELSE "none"]

\* mutant: the unique index covers the voter alone
TransactionUniqueVoter(vs, row) ==
  IF \E i \in 1..Len(vs) : vs[i].userUuid = row.userUuid
    THEN [votes |-> vs, error |-> "unique"]
    ELSE [votes |-> Append(vs, row), error |-> "none"]

\* the transaction of saveVoteInTransaction on the votes table vs: the row
\* is committed, or the unique index rejects it and nothing is written
Transaction(vs, row) ==
  IF \E i \in 1..Len(vs) : vs[i].pollId = row.pollId /\ vs[i].userUuid = row.userUuid
    THEN [votes |-> vs, error |-> "unique"]
    ELSE [votes |-> Append(vs, row), error |-> "none"]

\* mutant: the unique violation is not recognised
HandleVoteErrorUnrecognised(error) == "Error"

\* mutant: every error of the insert is answered with Conflict
HandleVoteErrorAlwaysConflict(error) == "Conflict"

\* the error object the catch block of castVote receives: the code of the
\* driver and the phrases of its message.  The unique index of the votes
\* table reports SQLITE_CONSTRAINT with "UNIQUE constraint failed"; a
\* failure of the store for another reason is a locked database
DriverError(error) ==
  IF error = "unique"
    THEN [code |-> "SQLITE_CONSTRAINT",
          message |-> <<"SQLITE_CONSTRAINT", "UNIQUE constraint failed",
                        "votes.pollId, votes.userUuid">>]
    ELSE [code |-> "SQLITE_BUSY", message |-> <<"SQLITE_BUSY", "database is locked">>]

\* handleVoteError, line 253: the test for the duplicate vote
IsUniqueViolation(e) ==
  \/ e.code = "SQLITE_CONSTRAINT_UNIQUE"
  \/ \E i \in 1..Len(e.message) : e.message[i] = "UNIQUE constraint failed"

\* handleVoteError: the unique violation becomes Conflict, anything else is
\* thrown again
HandleVoteError(error) ==
  IF IsUniqueViolation(DriverError(error)) THEN "Conflict" ELSE "Error"

\* POST /polls/:id/votes: castVote is called, findPollWithOptions resolves,
\* validatePollIsOpen and validateOptionBelongsToPoll run, and the
\* transaction is issued
CastVote(c, p, o, u) ==
  /\ vcall[c].pc = "idle"
  /\ \A d \in VoteCalls : d < c => vcall[d].pc # "idle"
  /\ LET outcome == ValidateVote(p, o, now)
         call == [IdleVote EXCEPT !.pollId = p, !.optionId = o, !.userUuid = u]
     IN vcall' = [vcall EXCEPT ![c] =
          IF outcome = "save" THEN [call EXCEPT !.pc = "save"]
          ELSE [call EXCEPT !.pc = "done", !.status = outcome]]
  /\ UNCHANGED <<now, polls, votes, cache, unswept, voteEvents, bcast, rcall, obs, scall, pcall>>

\* saveVoteInTransaction: the store runs the insert.  When it rejects the
\* row, the catch block of castVote answers through handleVoteError
SaveVoteInTransaction(c) ==
  /\ vcall[c].pc = "save"
  /\ LET tx == Transaction(votes, [pollId |-> vcall[c].pollId,
                                   userUuid |-> vcall[c].userUuid,
                                   optionId |-> vcall[c].optionId,
                                   createdAt |-> now])
     IN /\ votes' = tx.votes
        /\ vcall' = [vcall EXCEPT ![c] =
             IF tx.error = "none" THEN [@ EXCEPT !.pc = "saved"]
             ELSE [@ EXCEPT !.pc = "done", !.error = tx.error,
                            !.status = HandleVoteError(tx.error)]]
  /\ UNCHANGED <<now, polls, cache, unswept, voteEvents, bcast, rcall, obs, scall, pcall>>

\* the store fails the insert for a reason other than the unique index
SaveVoteFails(c) ==
  /\ vcall[c].pc = "save"
  /\ vcall' = [vcall EXCEPT ![c].pc = "done", ![c].error = "other",
                            ![c].status = HandleVoteError("other")]
  /\ UNCHANGED <<now, polls, votes, cache, unswept, voteEvents, bcast, rcall, obs, scall, pcall>>

\* mutant: castVote awaits broadcastVoteEvent before it answers
VoteSavedAwaitingBroadcast(c) ==
  /\ vcall[c].pc = "saved"
  /\ \/ /\ bcast[c].pc = "none"
        /\ cache' = InvalidateCache(cache, vcall[c].pollId)
        /\ unswept' = InvalidateCache(unswept, vcall[c].pollId)
        /\ bcast' = [bcast EXCEPT ![c].pc = "findPoll"]
        /\ UNCHANGED vcall
     \/ /\ bcast[c].pc = "done"
        /\ vcall' = [vcall EXCEPT ![c].pc = "done", ![c].status = "OK"]
        /\ UNCHANGED <<cache, unswept, bcast>>
  /\ UNCHANGED <<now, polls, votes, voteEvents, rcall, obs, scall, pcall>>

\* castVote after the insert committed: invalidateCache, the call of
\* broadcastVoteEvent (which runs up to its first await), and the response
VoteSaved(c) ==
  /\ vcall[c].pc = "saved"
  /\ cache' = InvalidateCache(cache, vcall[c].pollId)
  /\ unswept' = InvalidateCache(unswept, vcall[c].pollId)
  /\ bcast' = [bcast EXCEPT ![c].pc = "findPoll"]
  /\ vcall' = [vcall EXCEPT ![c].pc = "done", ![c].status = "OK"]
  /\ UNCHANGED <<now, polls, votes, voteEvents, rcall, obs, scall, pcall>>

\* ----------------------------------------------------- broadcastVoteEvent

\* mutant: the event is emitted twice
PublishTwice(events, p, results) ==
  Append(Append(events, [pollId |-> p, results |-> results]),
         [pollId |-> p, results |-> results])

\* voteEvents$.next({ pollId, results })
Publish(events, p, results) == Append(events, [pollId |-> p, results |-> results])

\* sendSSEMessage: response.write appends the message to an open response; on
\* a closed response nothing is written and nothing is thrown further
SendSSEMessage(call, event, data) ==
  IF call.open
    THEN [call EXCEPT !.written = Append(@, [event |-> event, data |-> data])]
    ELSE call

\* mutant: the subscription does not filter by poll
StreamFilterNone(event, pollId) == TRUE

\* filter(event => event.pollId === pollId)
StreamFilter(event, pollId) == event.pollId = pollId

\* what voteEvents$.next does to the connections: the Subject calls every
\* live subscription at once; filter, map and the next callback run
Deliver(calls, p, results) ==
  [s \in DOMAIN calls |->
     IF calls[s].subscription /\ StreamFilter([pollId |-> p, results |-> results],
                                              calls[s].pollId)
       THEN SendSSEMessage(calls[s], "results", results)
       ELSE calls[s]]

\* getPollResults of the broadcast: the poll lookup resolves, then the hidden
\* check and the cache lookup run.  A hidden response or a cached value is
\* published at once; otherwise the votes query is issued
BroadcastFindPoll(c) ==
  /\ bcast[c].pc = "findPoll"
  /\ LET p == vcall[c].pollId
         poll == polls[p]
     IN IF ShouldHideResults(poll, now)
          THEN /\ voteEvents' = Publish(voteEvents, p, CreateHiddenResultsResponse(poll))
               /\ scall' = Deliver(scall, p, CreateHiddenResultsResponse(poll))
               /\ bcast' = [bcast EXCEPT ![c].pc = "done", ![c].outcome = "published"]
               /\ UNCHANGED <<cache, unswept>>
          ELSE IF CacheHit(p, now)
            THEN /\ voteEvents' = Publish(voteEvents, p, cache[p].data)
                 /\ scall' = Deliver(scall, p, cache[p].data)
                 /\ bcast' = [bcast EXCEPT ![c].pc = "done", ![c].outcome = "published"]
                 /\ UNCHANGED <<cache, unswept>>
            ELSE /\ cache' = AfterGetCachedResults(p, now)
                 /\ unswept' = AfterLookup(unswept, p, now)
                 /\ bcast' = [bcast EXCEPT ![c].pc = "fetch"]
                 /\ UNCHANGED <<voteEvents, scall>>
  /\ UNCHANGED <<now, polls, votes, vcall, rcall, obs, pcall>>

\* the store runs the votes query of the broadcast
BroadcastFetch(c) ==
  /\ bcast[c].pc = "fetch"
  /\ bcast' = [bcast EXCEPT ![c].pc = "compute", ![c].n = Len(votes)]
  /\ UNCHANGED <<now, polls, votes, cache, unswept, voteEvents, vcall, rcall, obs, scall, pcall>>

\* computeResults continues with the fetched votes, setCachedResults stores
\* the value, and broadcastVoteEvent publishes it
BroadcastCompute(c) ==
  /\ bcast[c].pc = "compute"
  /\ LET p == vcall[c].pollId
         fresh == ComputeResults(polls[p], FetchAllVotesForPoll(p, bcast[c].n), now)
     IN /\ cache' = SetCachedResults(cache, p, fresh, now)
        /\ unswept' = SetCachedResults(unswept, p, fresh, now)
        /\ voteEvents' = Publish(voteEvents, p, fresh)
        /\ scall' = Deliver(scall, p, fresh)
  /\ bcast' = [bcast EXCEPT ![c].pc = "done", ![c].n = 0, ![c].outcome = "published"]
  /\ UNCHANGED <<now, polls, votes, vcall, rcall, obs, pcall>>

\* mutant: the error of the broadcast reaches the voter
RethrowBroadcastError(status) == "Error"

\* the catch block of broadcastVoteEvent: the error is logged and goes no
\* further, so the answer of the castVote request stays what it was
AfterBroadcastError(status) == status

\* a query of the broadcast is rejected by the store: broadcastVoteEvent
\* logs the error and publishes nothing
BroadcastFails(c) ==
  /\ bcast[c].pc \in {"findPoll", "fetch"}
  /\ bcast' = [bcast EXCEPT ![c].pc = "done", ![c].n = 0, ![c].outcome = "failed"]
  /\ vcall' = [vcall EXCEPT ![c].status = AfterBroadcastError(@)]
  /\ UNCHANGED <<now, polls, votes, cache, unswept, voteEvents, rcall, obs, scall, pcall>>

\* ------------------------------------------------------------ GET /results

\* the castVote requests on poll p that have been answered with success
Acknowledged(p) ==
  Cardinality({c \in VoteCalls : vcall[c].pollId = p /\ vcall[c].status = "OK"})

\* GET /polls/:id/results: PollsService.getPollResults is called,
\* validatePollExists resolves, and ResultsService.getPollResults is called
Arrive(r, p) ==
  /\ rcall[r].pc = "idle"
  /\ \A q \in ResultCalls : q < r => rcall[q].pc # "idle"
  /\ rcall' = [rcall EXCEPT ![r] =
       IF p \in DOMAIN polls
         THEN [IdleResult EXCEPT !.pc = "findPoll", !.pollId = p]
         ELSE [IdleResult EXCEPT !.pc = "done", !.pollId = p, !.status = "NotFound"]]
  /\ UNCHANGED <<now, polls, votes, cache, unswept, voteEvents, vcall, bcast, scall, pcall>>

GetPollResults(r, p) == Arrive(r, p) /\ UNCHANGED obs

\* the same request, with an observer noting the time it arrives at and the
\* number of votes on its poll acknowledged so far
GetPollResultsObserved(r, p) ==
  /\ Arrive(r, p)
  /\ obs' = [obs EXCEPT ![r] = [at |-> now, acked |-> Acknowledged(p)]]

\* mutant: the hidden response is stored in the cache like a computed one
ResultsFindPollCachingHidden(r) ==
  /\ rcall[r].pc = "findPoll"
  /\ LET p == rcall[r].pollId
         poll == polls[p]
     IN IF ShouldHideResults(poll, now)
          THEN /\ rcall' = [rcall EXCEPT ![r].pc = "done", ![r].status = "OK",
                              ![r].source = "hidden",
                              ![r].result = CreateHiddenResultsResponse(poll)]
               /\ cache' = SetCachedResults(cache, p, CreateHiddenResultsResponse(poll), now)
               /\ unswept' = SetCachedResults(unswept, p, CreateHiddenResultsResponse(poll), now)
          ELSE IF CacheHit(p, now)
            THEN /\ rcall' = [rcall EXCEPT ![r].pc = "done", ![r].status = "OK",
                                ![r].source = "cache",
                                ![r].age = now - cache[p].timestamp,
                                ![r].result = cache[p].data]
                 /\ UNCHANGED <<cache, unswept>>
            ELSE /\ cache' = AfterGetCachedResults(p, now)
                 /\ unswept' = AfterLookup(unswept, p, now)
                 /\ rcall' = [rcall EXCEPT ![r].pc = "fetch"]
  /\ UNCHANGED <<now, polls, votes, voteEvents, vcall, bcast, obs, scall, pcall>>

\* findPollWithOptions resolves; shouldHideResults and getCachedResults run
ResultsFindPoll(r) ==
  /\ rcall[r].pc = "findPoll"
  /\ LET p == rcall[r].pollId
         poll == polls[p]
     IN IF ShouldHideResults(poll, now)
          THEN /\ rcall' = [rcall EXCEPT ![r].pc = "done", ![r].status = "OK",
                              ![r].source = "hidden",
                              ![r].result = CreateHiddenResultsResponse(poll)]
               /\ UNCHANGED <<cache, unswept>>
          ELSE IF CacheHit(p, now)
            THEN /\ rcall' = [rcall EXCEPT ![r].pc = "done", ![r].status = "OK",
                                ![r].source = "cache",
                                ![r].age = now - cache[p].timestamp,
                                ![r].result = cache[p].data]
                 /\ UNCHANGED <<cache, unswept>>
            ELSE /\ cache' = AfterGetCachedResults(p, now)
                 /\ unswept' = AfterLookup(unswept, p, now)
                 /\ rcall' = [rcall EXCEPT ![r].pc = "fetch"]
  /\ UNCHANGED <<now, polls, votes, voteEvents, vcall, bcast, obs, scall, pcall>>

\* the store runs the votes query of computeResults
ResultsFetch(r) ==
  /\ rcall[r].pc = "fetch"
  /\ rcall' = [rcall EXCEPT ![r].pc = "compute", ![r].n = Len(votes)]
  /\ UNCHANGED <<now, polls, votes, cache, unswept, voteEvents, vcall, bcast, obs, scall, pcall>>

\* computeResults continues with the fetched votes; setCachedResults stores
\* the value and it is returned
ResultsCompute(r) ==
  /\ rcall[r].pc = "compute"
  /\ LET p == rcall[r].pollId
         fresh == ComputeResults(polls[p], FetchAllVotesForPoll(p, rcall[r].n), now)
     IN /\ cache' = SetCachedResults(cache, p, fresh, now)
        /\ unswept' = SetCachedResults(unswept, p, fresh, now)
        /\ rcall' = [rcall EXCEPT ![r].pc = "done", ![r].status = "OK", ![r].n = 0,
                       ![r].source = "fresh", ![r].result = fresh]
  /\ UNCHANGED <<now, polls, votes, voteEvents, vcall, bcast, obs, scall, pcall>>

\* ------------------------------------------------------------ GET /stream

\* the polls the GET /stream requests ask for
StreamPolls == {1, 2, MissingPoll}

\* the heartbeat messages written to a connection so far
Heartbeats(call) ==
  Cardinality({i \in 1..Len(call.written) : call.written[i].event = "heartbeat"})

\* mutant: the subscription is registered together with the connected
\* message, before the snapshot is computed
ConnectedAndSubscribed(call, t) ==
  [SendSSEMessage(call, "connected",
                  [pollId |-> call.pollId, timestamp |-> ToISOString(t)])
     EXCEPT !.subscription = TRUE]

\* streamResults, line 92: the connection confirmation
Connected(call, t) ==
  SendSSEMessage(call, "connected",
                 [pollId |-> call.pollId, timestamp |-> ToISOString(t)])

\* streamResults, lines 97-139, for the message the snapshot ended with: the
\* message is sent, the subscription and the heartbeat timer are created,
\* and the close and error handlers are registered
Established(call, event, data) ==
  [SendSSEMessage(call, event, data)
     EXCEPT !.pc = "streaming", !.n = 0, !.subscription = TRUE, !.heartbeatTimer = TRUE]

\* the handlers of response.on('close') and response.on('error'):
\* unsubscribe, clearInterval and end.  They exist from the moment the
\* request reaches line 126; an event emitted before that finds no handler
Closed(call) ==
  IF call.pc = "streaming"
    THEN [call EXCEPT !.open = FALSE, !.subscription = FALSE, !.heartbeatTimer = FALSE]
    ELSE [call EXCEPT !.open = FALSE]

\* GET /polls/:id/stream: streamResults is called and issues the poll lookup
StreamResults(s, p) ==
  /\ scall[s].pc = "idle"
  /\ \A q \in StreamCalls : q < s => scall[q].pc # "idle"
  /\ scall' = [scall EXCEPT ![s] =
       [IdleStream EXCEPT !.pc = "lookup", !.pollId = p, !.open = TRUE]]
  /\ UNCHANGED <<now, polls, votes, cache, unswept, voteEvents, vcall, bcast, rcall, obs, pcall>>

\* mutant: the headers and the connected message are written before the
\* poll is looked at
StreamLookupConnectsFirst(s) ==
  /\ scall[s].pc = "lookup"
  /\ scall' = [scall EXCEPT ![s] =
       IF scall[s].pollId \in DOMAIN polls
         THEN [Connected(scall[s], now) EXCEPT !.pc = "findPoll"]
         ELSE [Connected(scall[s], now)
                 EXCEPT !.pc = "done", !.status = "NotFound", !.open = FALSE]]
  /\ UNCHANGED <<now, polls, votes, cache, unswept, voteEvents, vcall, bcast, rcall, obs, pcall>>

\* the poll lookup resolves: NotFound, or the headers and the connected
\* message are written and ResultsService.getPollResults is called
StreamLookup(s) ==
  /\ scall[s].pc = "lookup"
  /\ scall' = [scall EXCEPT ![s] =
       IF scall[s].pollId \in DOMAIN polls
         THEN [Connected(scall[s], now) EXCEPT !.pc = "findPoll"]
         ELSE [scall[s] EXCEPT !.pc = "done", !.status = "NotFound", !.open = FALSE]]
  /\ UNCHANGED <<now, polls, votes, cache, unswept, voteEvents, vcall, bcast, rcall, obs, pcall>>

\* getPollResults of the snapshot: the poll lookup resolves, the hidden check
\* and the cache lookup run.  A hidden response or a cached value ends the
\* snapshot; otherwise the votes query is issued
StreamFindPoll(s) ==
  /\ scall[s].pc = "findPoll"
  /\ LET p == scall[s].pollId
         poll == polls[p]
     IN IF ShouldHideResults(poll, now)
          THEN /\ scall' = [scall EXCEPT ![s] =
                    Established(@, "results", CreateHiddenResultsResponse(poll))]
               /\ UNCHANGED <<cache, unswept>>
          ELSE IF CacheHit(p, now)
            THEN /\ scall' = [scall EXCEPT ![s] =
                      Established(@, "results", cache[p].data)]
                 /\ UNCHANGED <<cache, unswept>>
            ELSE /\ cache' = AfterGetCachedResults(p, now)
                 /\ unswept' = AfterLookup(unswept, p, now)
                 /\ scall' = [scall EXCEPT ![s].pc = "fetch"]
  /\ UNCHANGED <<now, polls, votes, voteEvents, vcall, bcast, rcall, obs, pcall>>

\* the store runs the votes query of the snapshot
StreamFetch(s) ==
  /\ scall[s].pc = "fetch"
  /\ scall' = [scall EXCEPT ![s].pc = "compute", ![s].n = Len(votes)]
  /\ UNCHANGED <<now, polls, votes, cache, unswept, voteEvents, vcall, bcast, rcall, obs, pcall>>

\* computeResults continues with the fetched votes, setCachedResults stores
\* the value, and streamResults goes on from line 97
StreamCompute(s) ==
  /\ scall[s].pc = "compute"
  /\ LET p == scall[s].pollId
         fresh == ComputeResults(polls[p], FetchAllVotesForPoll(p, scall[s].n), now)
     IN /\ cache' = SetCachedResults(cache, p, fresh, now)
        /\ unswept' = SetCachedResults(unswept, p, fresh, now)
        /\ scall' = [scall EXCEPT ![s] = Established(@, "results", fresh)]
  /\ UNCHANGED <<now, polls, votes, voteEvents, vcall, bcast, rcall, obs, pcall>>

\* a query of the snapshot is rejected by the store: the catch block of
\* line 98 sends an error message and streamResults goes on from line 103
StreamSnapshotFails(s) ==
  /\ scall[s].pc \in {"findPoll", "fetch"}
  /\ scall' = [scall EXCEPT ![s] =
       Established(@, "error", [message |-> "Failed to load current results"])]
  /\ UNCHANGED <<now, polls, votes, cache, unswept, voteEvents, vcall, bcast, rcall, obs, pcall>>

\* the heartbeat timer fires
Heartbeat(s) ==
  /\ scall[s].heartbeatTimer
  /\ Heartbeats(scall[s]) < MaxHeartbeats
  /\ scall' = [scall EXCEPT ![s] =
       SendSSEMessage(@, "heartbeat", [timestamp |-> ToISOString(now)])]
  /\ UNCHANGED <<now, polls, votes, cache, unswept, voteEvents, vcall, bcast, rcall, obs, pcall>>

\* the client disconnects: the response emits 'close'
ClientDisconnects(s) ==
  /\ scall[s].open
  /\ scall' = [scall EXCEPT ![s] = Closed(@)]
  /\ UNCHANGED <<now, polls, votes, cache, unswept, voteEvents, vcall, bcast, rcall, obs, pcall>>

\* ------------------------------------------------------------- POST /polls

\* the option texts the clients send
CreateTexts == {OptionTexts[i] : i \in 1..OptionsPerPoll}

\* the option lists the clients send: every list of up to MaxOptions texts,
\* the empty list, the lists of one text and the lists with a text repeated
\* included
CreateOptionLists == UNION {[1..n -> CreateTexts] : n \in 0..MaxOptions}

\* the create-poll bodies: a close time before, at or after any time of the
\* clock.  question and hideResultsUntilClose are left out: no check reads
\* them, and an absent hideResultsUntilClose is stored as false
CreatePollDtos == [options : CreateOptionLists, closesAt : 0..(MaxTime + 1)]

\* mutant: the poll is saved under the id of a stored poll
NewPollIdOfStoredPoll(k) == MaxPolls

\* the uuid primary keys the store generates for the poll of request k and
\* for its options
NewPollId(k) == MissingPoll + k
NewOptionId(p, i) == (p - 1) * MaxOptions + i

\* CreatePollDto.options carries @ArrayMinSize(2); the global ValidationPipe
\* answers 400 before the controller runs
ValidateDto(dto) == Len(dto.options) >= 2

ClosesInPastExclusive(closesAt, t) == closesAt < t

\* closesAt <= new Date()
ClosesInPast(closesAt, t) == closesAt <= t

\* [...new Set(createPollDto.options)]
UniqueOptions(options) == {options[i] : i \in DOMAIN options}

\* uniqueOptions.length !== createPollDto.options.length
HasDuplicateOptions(options) == Cardinality(UniqueOptions(options)) # Len(options)

\* the checks of a POST /polls request in the order they run, at time t
CreatePollOutcome(dto, t) ==
  IF ~ValidateDto(dto) THEN "BadRequest"
  ELSE IF ClosesInPast(dto.closesAt, t) THEN "BadRequest"
  ELSE IF HasDuplicateOptions(dto.options) THEN "BadRequest"
  ELSE "transaction"

\* the Poll row of request k with its options, as the transaction commits it
CreatedPoll(call) ==
  [id |-> call.pollId, closesAt |-> call.dto.closesAt, hideResultsUntilClose |-> FALSE,
   createdAt |-> call.createdAt,
   options |-> [i \in 1..Len(call.dto.options) |->
                  [id |-> NewOptionId(call.pollId, i), text |-> call.dto.options[i]]]]

\* POST /polls arrives: the body is validated, createPoll checks the close
\* time against the clock and the options against each other, and awaits the
\* transaction
CreatePoll(k, dto) ==
  /\ pcall[k].pc = "idle"
  /\ \A j \in CreateCalls : j < k => pcall[j].pc # "idle"
  /\ LET outcome == CreatePollOutcome(dto, now)
     IN pcall' = [pcall EXCEPT ![k] =
          [@ EXCEPT !.dto = dto, !.checkedAt = now,
                    !.pc = IF outcome = "transaction" THEN "transaction" ELSE "done",
                    !.status = IF outcome = "transaction" THEN "none" ELSE outcome]]
  /\ UNCHANGED <<now, polls, votes, cache, unswept, voteEvents, vcall, bcast, rcall, obs, scall>>

\* mutant: the poll row is written outside the transaction and is visible
\* before its options are saved
CreatePollSavePollVisible(k) ==
  /\ pcall[k].pc = "transaction"
  /\ pcall' = [pcall EXCEPT ![k] =
       [@ EXCEPT !.pc = "saveOptions", !.pollId = NewPollId(k), !.createdAt = now]]
  /\ polls' = [q \in (DOMAIN polls) \cup {NewPollId(k)} |->
                 IF q = NewPollId(k)
                   THEN [CreatedPoll(pcall'[k]) EXCEPT !.options = <<>>]
                   ELSE polls[q]]
  /\ UNCHANGED <<now, votes, cache, unswept, voteEvents, vcall, bcast, rcall, obs, scall>>

\* manager.save(poll) inside the transaction: the row gets its id and its
\* createdAt (@CreateDateColumn) at the insert; nothing is visible outside
\* the transaction yet
CreatePollSavePoll(k) ==
  /\ pcall[k].pc = "transaction"
  /\ pcall' = [pcall EXCEPT ![k] =
       [@ EXCEPT !.pc = "saveOptions", !.pollId = NewPollId(k), !.createdAt = now]]
  /\ UNCHANGED <<now, polls, votes, cache, unswept, voteEvents, vcall, bcast, rcall, obs, scall>>

\* manager.save(options) and the commit: the poll and its options appear in
\* the store together
CreatePollSaveOptions(k) ==
  /\ pcall[k].pc = "saveOptions"
  /\ polls' = [q \in (DOMAIN polls) \cup {pcall[k].pollId} |->
                 IF q = pcall[k].pollId THEN CreatedPoll(pcall[k]) ELSE polls[q]]
  /\ pcall' = [pcall EXCEPT ![k] = [@ EXCEPT !.pc = "done", !.status = "Created"]]
  /\ UNCHANGED <<now, votes, cache, unswept, voteEvents, vcall, bcast, rcall, obs, scall>>

\* a save inside the transaction throws: the transaction is rolled back and
\* the error is rethrown
CreatePollFails(k) ==
  /\ pcall[k].pc \in {"transaction", "saveOptions"}
  /\ pcall' = [pcall EXCEPT ![k] = [@ EXCEPT !.pc = "done", !.status = "Error", !.pollId = 0]]
  /\ UNCHANGED <<now, polls, votes, cache, unswept, voteEvents, vcall, bcast, rcall, obs, scall>>

\* -------------------------------------------------- getPoll and the sweep

\* GET /polls/:id: the poll is read with its options and returned, or
\* NotFound is thrown; nothing is written
GetPoll(p) == UNCHANGED vars

\* cleanupExpiredCache runs
CleanupExpiredCache ==
  /\ cache' = CleanupExpired(cache, now)
  /\ UNCHANGED unswept
  /\ UNCHANGED <<now, polls, votes, voteEvents, vcall, bcast, rcall, obs, scall, pcall>>

\* ---------------------------------------------------------- specification

VoteSteps ==
  \/ \E c \in VoteCalls : SaveVoteInTransaction(c)
  \/ \E c \in VoteCalls : SaveVoteFails(c)
  \/ \E c \in VoteCalls : VoteSaved(c)
  \/ \E c \in VoteCalls : BroadcastFindPoll(c)
  \/ \E c \in VoteCalls : BroadcastFetch(c)
  \/ \E c \in VoteCalls : BroadcastCompute(c)
  \/ \E c \in VoteCalls : BroadcastFails(c)

ResultSteps ==
  \/ \E r \in ResultCalls : ResultsFindPoll(r)
  \/ \E r \in ResultCalls : ResultsFetch(r)
  \/ \E r \in ResultCalls : ResultsCompute(r)

\* the vote path: concurrent castVote requests of every kind
NextVote ==
  \/ Tick
  \/ \E c \in VoteCalls, req \in VoteRequests : CastVote(c, req[1], req[2], req[3])
  \/ VoteSteps

SpecVote == Init /\ [][NextVote]_vars

\* the vote path with the scheduling the event loop guarantees to castVote:
\* the continuation after an await that resolved is run.  Nothing is assumed
\* of the store's answers to the queries of the broadcast
SpecVoteFair == SpecVote /\ \A c \in VoteCalls : WF_vars(VoteSaved(c))

\* the vote path when the store answers every query of the broadcast, with a
\* result or with an error: the continuation after each await is run
SpecBroadcastFair ==
  /\ SpecVoteFair
  /\ \A c \in VoteCalls : /\ WF_vars(BroadcastFindPoll(c))
                          /\ WF_vars(BroadcastFetch(c))
                          /\ WF_vars(BroadcastCompute(c))

\* the polls the GET /results requests ask for: the visible poll 1, the
\* hidden poll 2 and a poll that is not there
ReadPolls == {1, 2, MissingPoll}

\* the castVote requests that race with the reads
ReadVoteCalls == {1}

\* the read path: GET /results requests racing with a valid vote
NextRead ==
  \/ Tick
  \/ \E c \in ReadVoteCalls, req \in ValidVoteRequests :
       CastVote(c, req[1], req[2], req[3])
  \/ VoteSteps
  \/ \E r \in ResultCalls, p \in ReadPolls : GetPollResults(r, p)
  \/ ResultSteps

SpecRead == Init /\ [][NextRead]_vars

\* the read path with the sweep run at arbitrary points
NextSweep ==
  \/ NextRead
  \/ CleanupExpiredCache

SpecSweep == Init /\ [][NextSweep]_vars

\* the read path with the observer
NextObserved ==
  \/ Tick
  \/ \E c \in ReadVoteCalls, req \in ValidVoteRequests :
       CastVote(c, req[1], req[2], req[3])
  \/ VoteSteps
  \/ \E r \in ResultCalls, p \in ReadPolls : GetPollResultsObserved(r, p)
  \/ ResultSteps

SpecObserved == Init /\ [][NextObserved]_vars

StreamSteps ==
  \/ \E s \in StreamCalls : StreamLookup(s)
  \/ \E s \in StreamCalls : StreamFindPoll(s)
  \/ \E s \in StreamCalls : StreamFetch(s)
  \/ \E s \in StreamCalls : StreamCompute(s)
  \/ \E s \in StreamCalls : StreamSnapshotFails(s)
  \/ \E s \in StreamCalls : Heartbeat(s)
  \/ \E s \in StreamCalls : ClientDisconnects(s)

\* the live stream: GET /stream requests racing with a valid vote
NextStream ==
  \/ \E c \in ReadVoteCalls, req \in ValidVoteRequests :
       CastVote(c, req[1], req[2], req[3])
  \/ VoteSteps
  \/ \E s \in StreamCalls, p \in StreamPolls : StreamResults(s, p)
  \/ StreamSteps

SpecStream == Init /\ [][NextStream]_vars

\* the votes tables the aggregation is given: up to MaxVotes rows of distinct
\* voters in commit order, each on poll 1 or 2 for one of the poll's options,
\* committed at time 0 or 1
AggregateRows ==
  [pollId : {1, 2}, userUuid : 1..MaxVotes, optionId : 1..(2 * OptionsPerPoll),
   createdAt : {0, 1}]

AggregateTables ==
  UNION {{vs \in [1..n -> AggregateRows] :
            /\ \A i \in 1..n :
                 /\ vs[i].userUuid = i
                 /\ HasOption(StoredPolls[vs[i].pollId], vs[i].optionId)
            /\ \A i \in 1..(n - 1) : vs[i].createdAt <= vs[i + 1].createdAt}
         : n \in 0..MaxVotes}

\* the process some minutes after the polls closed, with votes in the store:
\* the oldest votes are then exactly as old as the velocity window, or older
InitAggregate ==
  /\ now \in {VelocityWindow, VelocityWindow + 1}
  /\ polls = StoredPolls
  /\ votes \in AggregateTables
  /\ cache = <<>>
  /\ unswept = <<>>
  /\ voteEvents = <<>>
  /\ vcall = [c \in VoteCalls |-> IdleVote]
  /\ bcast = [c \in VoteCalls |-> IdleBroadcast]
  /\ rcall = [r \in ResultCalls |-> IdleResult]
  /\ obs = [r \in ResultCalls |-> [at |-> 0, acked |-> 0]]
  /\ scall = [s \in StreamCalls |-> IdleStream]
  /\ pcall = [k \in CreateCalls |-> IdleCreate]

\* the aggregation: GET /results requests on a store that holds votes
NextAggregate ==
  \/ \E r \in ResultCalls, p \in PollIds : GetPollResults(r, p)
  \/ ResultSteps

SpecAggregate == InitAggregate /\ [][NextAggregate]_vars

CreateSteps ==
  \/ \E k \in CreateCalls : CreatePollSavePoll(k)
  \/ \E k \in CreateCalls : CreatePollSaveOptions(k)
  \/ \E k \in CreateCalls : CreatePollFails(k)

\* poll creation: concurrent POST /polls requests of every kind while the
\* clock runs
NextCreate ==
  \/ Tick
  \/ \E k \in CreateCalls, dto \in CreatePollDtos : CreatePoll(k, dto)
  \/ CreateSteps

SpecCreate == Init /\ [][NextCreate]_vars

\* the create-poll bodies of the whole service: one that passes the checks
\* at time 0 and one that repeats an option
StoreDtos ==
  {[options |-> <<OptionTexts[1], OptionTexts[2]>>, closesAt |-> CloseTime],
   [options |-> <<OptionTexts[1], OptionTexts[1]>>, closesAt |-> CloseTime]}

\* one request at a time of each kind
StoreCalls == {1}

\* the poll the requests of the whole service are about: the visible poll 1
StorePolls == {1}

\* the whole service: every operation that reaches the store or the cache,
\* one request of each kind, while the clock runs
NextStore ==
  \/ Tick
  \/ \E k \in StoreCalls, dto \in StoreDtos : CreatePoll(k, dto)
  \/ CreateSteps
  \/ \E p \in StorePolls : GetPoll(p)
  \/ \E c \in StoreCalls, p \in StorePolls : CastVote(c, p, OptionId(p, 1), 1)
  \/ VoteSteps
  \/ \E r \in StoreCalls, p \in StorePolls : GetPollResults(r, p)
  \/ ResultSteps
  \/ CleanupExpiredCache
  \/ \E c \in StoreCalls, p \in StorePolls : StreamResults(c, p)
  \/ StreamSteps

SpecStore == Init /\ [][NextStore]_vars

\* the polls the create requests make
CreatedPolls == {NewPollId(k) : k \in CreateCalls}

\* requests about a poll while it is being created: getPoll, castVote for
\* its first option and getResults run at any point of createPoll
NextVisible ==
  \/ Tick
  \/ \E k \in CreateCalls, dto \in StoreDtos : CreatePoll(k, dto)
  \/ CreateSteps
  \/ \E p \in CreatedPolls : GetPoll(p)
  \/ \E c \in StoreCalls, p \in CreatedPolls : CastVote(c, p, NewOptionId(p, 1), 1)
  \/ VoteSteps
  \/ \E r \in StoreCalls, p \in CreatedPolls : GetPollResults(r, p)
  \/ ResultSteps

SpecVisible == Init /\ [][NextVisible]_vars

\* ================================================================ claims

\* the row a castVote request inserts, whatever its commit time
HasRow(c) ==
  \E i \in 1..Len(votes) : /\ votes[i].pollId = vcall[c].pollId
                           /\ votes[i].userUuid = vcall[c].userUuid
                           /\ votes[i].optionId = vcall[c].optionId

VotesOfPoll(p) == Len(FetchAllVotesForPoll(p, Len(votes)))

\* C1: in every reachable state the votes table holds at most one row for
\* each (poll, voter) pair, whatever the interleaving of the castVote requests
C1_OneVotePerPollAndVoter ==
  \A i, j \in 1..Len(votes) :
    (votes[i].pollId = votes[j].pollId /\ votes[i].userUuid = votes[j].userUuid)
      => i = j

\* two requests of one voter on one poll race: the second was answered with
\* Conflict while the first, already committed, has not yet answered
C1_Witness ==
  \E c, d \in VoteCalls :
    /\ c # d
    /\ vcall[c].pollId = vcall[d].pollId /\ vcall[c].userUuid = vcall[d].userUuid
    /\ vcall[c].pc = "saved"
    /\ vcall[d].status = "Conflict"

\* a request that passed the checks and went on to the insert
Inserting(c) ==
  vcall[c].pc \in {"save", "saved"} \/ vcall[c].status \in {"OK", "Conflict", "Error"}

\* the requests of the same voter on the same poll as request c that went on
\* to the insert, c included
Racers(c) ==
  {d \in VoteCalls : /\ Inserting(d)
                     /\ vcall[d].pollId = vcall[c].pollId
                     /\ vcall[d].userUuid = vcall[c].userUuid}

C5_ClosedPollRejectsVote ==
  [][\A c \in VoteCalls :
       (/\ vcall[c].pc = "idle"
        /\ vcall'[c] # vcall[c]
        /\ vcall'[c].pollId \in DOMAIN polls
        /\ now >= polls[vcall'[c].pollId].closesAt)
       => /\ vcall'[c].pc = "done"
          /\ vcall'[c].status = "Closed"
          /\ votes' = votes]_vars

\* a vote was refused as Closed at the close time itself
C5_Witness ==
  \E c \in VoteCalls :
    /\ vcall[c].status = "Closed"
    /\ now = polls[vcall[c].pollId].closesAt

\* C6: a castVote on an open poll with an optionId that is not one of the
\* poll's options, an option of another poll included, is answered with
\* NotFound and writes no vote
C6_ForeignOptionRejected ==
  [][\A c \in VoteCalls :
       (/\ vcall[c].pc = "idle"
        /\ vcall'[c] # vcall[c]
        /\ vcall'[c].pollId \in DOMAIN polls
        /\ now < polls[vcall'[c].pollId].closesAt
        /\ \A k \in 1..OptionsPerPoll :
             polls[vcall'[c].pollId].options[k].id # vcall'[c].optionId)
       => /\ vcall'[c].pc = "done"
          /\ vcall'[c].status = "NotFound"
          /\ votes' = votes]_vars

\* a vote on an existing poll for an option of another poll was refused
C6_Witness ==
  \E c \in VoteCalls :
    /\ vcall[c].status = "NotFound"
    /\ vcall[c].pollId \in DOMAIN polls
    /\ \E q \in DOMAIN polls :
         /\ q # vcall[c].pollId
         /\ \E k \in 1..OptionsPerPoll : polls[q].options[k].id = vcall[c].optionId

\* the requests whose insert committed
Committed == {c \in VoteCalls : vcall[c].pc = "saved" \/ vcall[c].status = "OK"}

\* C7: the votes table holds exactly one row for each castVote whose insert
\* committed (the ones answered with success) and none for any other; and
\* every step of a castVote request other than its commit and its
\* post-commit step leaves the votes, the cache and the event channel as
\* they were
C7_OneRowOnSuccessNoneOnFailure ==
  /\ [](Len(votes) = Cardinality(Committed))
  /\ [][\A c \in VoteCalls :
          vcall'[c] # vcall[c] =>
            IF vcall'[c].pc = "saved"
              THEN /\ Len(votes') = Len(votes) + 1
                   /\ cache' = cache /\ voteEvents' = voteEvents
            ELSE IF vcall[c].pc = "saved"
              THEN vcall'[c].status = "OK" /\ votes' = votes
            ELSE votes' = votes /\ cache' = cache /\ voteEvents' = voteEvents]_vars

\* a duplicate vote was answered with Conflict while the cache holds an entry
\* for its poll and an event has been published, and another vote was
\* answered with success
C7_Witness ==
  \E c, d \in VoteCalls :
    /\ vcall[c].status = "Conflict"
    /\ vcall[c].pollId \in DOMAIN cache
    /\ voteEvents # <<>>
    /\ vcall[d].status = "OK"

\* C8: once the insert of a castVote has committed the request is answered
\* with success, and whatever becomes of its broadcast the answer stays
\* success and the row stays in the votes table
C8_BroadcastFailureAbsorbed ==
  /\ [](\A c \in VoteCalls :
          bcast[c].pc # "none" => vcall[c].status = "OK" /\ HasRow(c))
  /\ [][\A c \in VoteCalls :
          (vcall[c].pc = "saved" /\ vcall'[c] # vcall[c])
            => vcall'[c].status = "OK"]_vars

\* the broadcast of a committed vote failed
C8_Witness ==
  \E c \in VoteCalls : bcast[c].outcome = "failed" /\ vcall[c].status = "OK"

\* C3: a GET /results on a poll that shows its results, arriving after k
\* castVote requests on that poll were answered with success, returns
\* aggregates that count at least those k votes
C3_ResultsIncludeAcknowledgedVotes ==
  \A r \in ResultCalls :
    (/\ rcall[r].status = "OK"
     /\ ~polls[rcall[r].pollId].hideResultsUntilClose)
    => rcall[r].result.total >= obs[r].acked

\* C4: for a poll with hideResultsUntilClose, a GET /results whose hidden
\* check runs at now < closesAt returns {hidden: true, closesAt} whatever the
\* cache and the votes table hold, and one whose check runs at
\* now >= closesAt returns aggregates (from the cache or freshly computed)
C4_HiddenUntilClose ==
  [][\A r \in ResultCalls :
       (/\ rcall'[r] # rcall[r]
        /\ rcall[r].pollId \in DOMAIN polls
        /\ polls[rcall[r].pollId].hideResultsUntilClose)
       => LET poll == polls[rcall[r].pollId]
          IN /\ (rcall[r].pc = "findPoll" /\ now < poll.closesAt)
                  => /\ rcall'[r].pc = "done"
                     /\ rcall'[r].result =
                          [hidden |-> TRUE, closesAt |-> ToISOString(poll.closesAt)]
             /\ (rcall[r].pc = "findPoll" /\ now >= poll.closesAt)
                  => \/ rcall'[r].pc = "fetch"
                     \/ rcall'[r].pc = "done" /\ IsAggregate(rcall'[r].result)
             /\ rcall[r].pc = "compute"
                  => rcall'[r].pc = "done" /\ IsAggregate(rcall'[r].result)]_vars

\* one request on a hidden poll was answered with the hidden variant while
\* the poll had a vote, another one with aggregates that count the vote
C4_Witness ==
  \E r, q \in ResultCalls :
    /\ rcall[r].pollId = rcall[q].pollId
    /\ rcall[r].pollId \in DOMAIN polls
    /\ polls[rcall[r].pollId].hideResultsUntilClose
    /\ rcall[r].status = "OK" /\ IsHidden(rcall[r].result)
    /\ rcall[q].status = "OK" /\ IsAggregate(rcall[q].result)
    /\ rcall[q].result.total >= 1

\* C9: when the cache lookup of a GET /results on a poll that is not hidden
\* finds an entry with now - computedAt <= TTL (equal included), the request
\* returns that entry's data in the same step, issues no votes query and
\* leaves the cache as it is, whatever the votes table holds
C9_FreshEntryReturnedVerbatim ==
  [][\A r \in ResultCalls :
       LET p == rcall[r].pollId
       IN (/\ rcall[r].pc = "findPoll"
           /\ rcall'[r] # rcall[r]
           /\ ~(polls[p].hideResultsUntilClose /\ now < polls[p].closesAt)
           /\ p \in DOMAIN cache
           /\ now - cache[p].timestamp <= CacheTtl)
          => /\ rcall'[r].pc = "done"
             /\ rcall'[r].result = cache[p].data
             /\ cache' = cache]_vars

\* a request was served an entry exactly one TTL old whose total differs
\* from the number of votes the poll has
C9_Witness ==
  \E r \in ResultCalls :
    /\ rcall[r].status = "OK"
    /\ rcall[r].source = "cache"
    /\ rcall[r].age = CacheTtl
    /\ rcall[r].result.total # VotesOfPoll(rcall[r].pollId)

RECURSIVE SumOfCounts(_, _)
SumOfCounts(options, k) ==
  IF k = 0 THEN 0 ELSE options[k].count + SumOfCounts(options, k - 1)

\* x is num / den rounded to the nearest integer, halves upwards
IsRounded(x, num, den) ==
  /\ 2 * den * x <= 2 * num + den
  /\ 2 * num + den < 2 * den * (x + 1)

\* C11: in every result that was computed, total is the number of votes of
\* the poll, each option's count is the number of votes that reference it,
\* the counts sum to total, and each percentage (in hundredths) is
\* count / total * 100 rounded to two decimals when total > 0 and 0 when
\* total = 0
C11_CountsAndPercentages ==
  \A r \in ResultCalls :
    (rcall[r].status = "OK" /\ IsAggregate(rcall[r].result))
    => LET p == rcall[r].pollId
           res == rcall[r].result
       IN /\ res.total = VotesOfPoll(p)
          /\ SumOfCounts(res.options, OptionsPerPoll) = res.total
          /\ \A k \in 1..OptionsPerPoll :
               /\ res.options[k].count =
                    Cardinality({i \in 1..Len(votes) :
                                   /\ votes[i].pollId = p
                                   /\ votes[i].optionId = polls[p].options[k].id})
               /\ IF res.total > 0
                    THEN IsRounded(res.options[k].percentage,
                                   res.options[k].count * 10000, res.total)
                    ELSE res.options[k].percentage = 0

\* one result was computed over three votes split 1 : 2 (33.33 and 66.67 per
\* cent), another over a poll without votes
C11_Witness ==
  \E r, q \in ResultCalls :
    /\ rcall[r].source = "fresh" /\ rcall[r].result.total = 3
    /\ rcall[r].result.options[1].percentage = 3333
    /\ rcall[r].result.options[2].percentage = 6667
    /\ rcall[q].source = "fresh" /\ rcall[q].result.total = 0
    /\ \A k \in 1..OptionsPerPoll : rcall[q].result.options[k].percentage = 0

\* the votes of poll p that are at most one velocity window old at time t
RecentVotes(p, t) ==
  {i \in 1..Len(votes) : votes[i].pollId = p /\ t - votes[i].createdAt <= VelocityWindow}

\* C12: the velocity of a computed result (in hundredths) is k / 5 rounded
\* to two decimals, k being the number of votes of the poll created at or
\* after the computation time minus 5 minutes; a vote exactly 5 minutes old
\* counts
C12_VelocityOverTrailingWindow ==
  \A r \in ResultCalls :
    (rcall[r].status = "OK" /\ IsAggregate(rcall[r].result))
    => IsRounded(rcall[r].result.voteVelocityPerMinLast5,
                 Cardinality(RecentVotes(rcall[r].pollId, now)) * 100, 5)

\* a result computed over one vote exactly 5 minutes old and one vote 6
\* minutes old: the velocity is 0.2
C12_Witness ==
  \E r \in ResultCalls :
    /\ rcall[r].source = "fresh"
    /\ rcall[r].result.total = 2
    /\ rcall[r].result.voteVelocityPerMinLast5 = 20
    /\ \E i, j \in 1..Len(votes) :
         /\ votes[i].pollId = rcall[r].pollId /\ votes[j].pollId = rcall[r].pollId
         /\ now - votes[i].createdAt = VelocityWindow
         /\ now - votes[j].createdAt = VelocityWindow + 1

\* C13: invalidateCache(P) leaves the cache equal to what it was minus the
\* entry of P: no change when P has no entry, the entries of all other
\* polls as they were, and a second application changes nothing more.  It
\* holds of every reachable cache, and the post-commit step of castVote
\* changes the cache in exactly this way
C13_InvalidateRemovesOneEntry ==
  /\ [](\A p \in ReadPolls :
          LET once == InvalidateCache(cache, p)
          IN /\ DOMAIN once = (DOMAIN cache) \ {p}
             /\ \A q \in DOMAIN once : once[q] = cache[q]
             /\ p \notin DOMAIN cache => once = cache
             /\ InvalidateCache(once, p) = once)
  /\ [][\A c \in VoteCalls :
          (vcall[c].pc = "saved" /\ vcall'[c].pc # "saved")
            => /\ DOMAIN cache' = (DOMAIN cache) \ {vcall[c].pollId}
               /\ \A q \in DOMAIN cache' : cache'[q] = cache[q]]_vars

\* a vote on a poll has just run invalidateCache: the entry a finished
\* request had computed for the poll is gone, the entry of the other poll is
\* still there
C13_Witness ==
  \E c \in VoteCalls, r \in ResultCalls :
    /\ vcall[c].status = "OK" /\ bcast[c].pc = "findPoll"
    /\ rcall[r].pollId = vcall[c].pollId /\ rcall[r].source = "fresh"
    /\ \A q \in ResultCalls : rcall[q].pc \in {"idle", "done"}
    /\ vcall[c].pollId \notin DOMAIN cache
    /\ \E q \in DOMAIN cache : q # vcall[c].pollId

\* C14: a stream connection that has closed, at whatever point after its
\* poll lookup started, holds neither a subscription nor a heartbeat timer;
\* so the live subscriptions and the live timers are never more than the
\* open connections
C14_ClosedConnectionHoldsNothing ==
  /\ \A s \in StreamCalls :
       (scall[s].pc # "idle" /\ ~scall[s].open)
         => ~scall[s].subscription /\ ~scall[s].heartbeatTimer
  /\ Cardinality({s \in StreamCalls : scall[s].subscription})
       <= Cardinality({s \in StreamCalls : scall[s].open})
  /\ Cardinality({s \in StreamCalls : scall[s].heartbeatTimer})
       <= Cardinality({s \in StreamCalls : scall[s].open})

\* the castVote requests on poll p have all been answered and the broadcast
\* of every successful one has published its event
VotesSettled(p) ==
  \A c \in VoteCalls :
    vcall[c].pollId = p
      => /\ vcall[c].pc = "done"
         /\ vcall[c].status = "OK" => bcast[c].outcome = "published"

\* C15: on an open stream connection on a poll that shows its results, whose
\* snapshot was computed and whose subscription is registered, once the
\* votes on the poll have settled some results message written to the
\* connection (the snapshot or a later one) counts every vote of the poll
C15_NoVoteLostToAStream ==
  \A s \in StreamCalls :
    (/\ scall[s].pc = "streaming" /\ scall[s].open
     /\ ~polls[scall[s].pollId].hideResultsUntilClose
     /\ scall[s].written[2].event = "results"
     /\ VotesSettled(scall[s].pollId))
    => \E i \in 2..Len(scall[s].written) :
         /\ scall[s].written[i].event = "results"
         /\ scall[s].written[i].data.total >= VotesOfPoll(scall[s].pollId)

\* C16: on a stream connection the first message written is connected and
\* the second is the snapshot (results, or error when the snapshot could not
\* be computed); a message is appended after these two, and is a results or
\* a heartbeat message, only once the snapshot has been written
C16_ConnectedThenSnapshotThenUpdates ==
  /\ [](\A s \in StreamCalls :
          LET w == scall[s].written
          IN /\ Len(w) >= 1 => w[1].event = "connected"
             /\ Len(w) >= 2 => w[2].event \in {"results", "error"}
             /\ \A i \in 3..Len(w) : w[i].event \in {"results", "heartbeat"})
  /\ [][\A s \in StreamCalls :
          LET w == scall[s].written
              v == scall'[s].written
          IN v # w =>
               /\ Len(v) = Len(w) + 1 /\ SubSeq(v, 1, Len(w)) = w
               /\ scall[s].pc = "lookup" => Len(w) = 0
               /\ scall[s].pc \in {"findPoll", "fetch", "compute"}
                    => Len(w) = 1 /\ scall'[s].pc = "streaming"
               /\ scall[s].pc = "streaming" => Len(w) >= 2]_vars

\* a connection has received connected, its snapshot, a vote-driven results
\* message and a heartbeat
C16_Witness ==
  \E s \in StreamCalls :
    LET w == scall[s].written
    IN /\ Len(w) >= 4
       /\ w[1].event = "connected" /\ w[2].event = "results"
       /\ \E i \in 3..Len(w) : w[i].event = "results"
       /\ \E i \in 3..Len(w) : w[i].event = "heartbeat"

\* C17: when an event is published for poll P, a results message with the
\* event's results is appended to every open connection that holds a
\* subscription at that moment and asked for P, and nothing is written to
\* any other connection; outside a publish step a connection that has
\* subscribed receives nothing but heartbeats, so an event is never
\* delivered to a connection that subscribes later
C17_DeliveredToSubscribersOfThePoll ==
  [][\A s \in StreamCalls :
       LET w == scall[s].written
           v == scall'[s].written
       IN IF voteEvents' # voteEvents
            THEN LET event == voteEvents'[Len(voteEvents')]
                 IN v = IF /\ scall[s].subscription /\ scall[s].open
                           /\ scall[s].pollId = event.pollId
                          THEN Append(w, [event |-> "results", data |-> event.results])
                          ELSE w
            ELSE (scall[s].pc = "streaming" /\ v # w)
                   => v[Len(v)].event = "heartbeat"]_vars

\* an event was published for poll 1: the connection on poll 1 has received
\* it after its snapshot, the open connection on poll 2 has received nothing
\* after its snapshot
C17_Witness ==
  \E s, q \in StreamCalls :
    /\ \E i \in 1..Len(voteEvents) : voteEvents[i].pollId = scall[s].pollId
    /\ scall[s].open /\ Len(scall[s].written) >= 3
    /\ scall[s].written[3] =
         [event |-> "results", data |-> voteEvents[Len(voteEvents)].results]
    /\ scall[q].pollId # scall[s].pollId
    /\ scall[q].pc = "streaming" /\ scall[q].open /\ scall[q].subscription
    /\ Len(scall[q].written) = 2

\* the votes table holds a row for the poll and the voter of request c
PairTaken(c) ==
  \E i \in 1..Len(votes) : /\ votes[i].pollId = vcall[c].pollId
                           /\ votes[i].userUuid = vcall[c].userUuid

\* C18: a castVote is answered with Conflict only when its insert was
\* rejected by the unique index on (poll, voter), the pair being taken by
\* another row; an insert that fails for any other reason is answered with
\* an error that is not Conflict; and the step that answers either way
\* leaves the votes table as it was
C18_ConflictOnlyForTheUniqueIndex ==
  /\ [](\A c \in VoteCalls :
          /\ vcall[c].status = "Conflict" => vcall[c].error = "unique" /\ PairTaken(c)
          /\ vcall[c].error = "other" => vcall[c].status = "Error")
  /\ [][\A c \in VoteCalls :
          (vcall[c].pc = "save" /\ vcall'[c].status \in {"Conflict", "Error"})
            => /\ votes' = votes
               /\ vcall'[c].status = "Conflict" <=> vcall'[c].error = "unique"
               /\ vcall'[c].error = "unique" => PairTaken(c)]_vars

\* the store failed the insert of one request for another reason than the
\* unique index: the request was answered with a plain error and the votes
\* table holds only the row of the other request
C18_Witness ==
  \E c, d \in VoteCalls :
    /\ vcall[c].error = "other" /\ vcall[c].status = "Error"
    /\ vcall[d].status = "OK"
    /\ vcall[d].pollId = vcall[c].pollId /\ vcall[d].userUuid = vcall[c].userUuid
    /\ Len(votes) = 1

\* C19: every poll persisted by createPoll has at least two options, option
\* texts that are pairwise distinct, and a close time strictly later than
\* its creation time
C19_PersistedPollsAreWellFormed ==
  \A k \in CreateCalls :
    pcall[k].status = "Created" =>
      LET poll == polls[pcall[k].pollId]
      IN /\ Len(poll.options) >= 2
         /\ \A i, j \in DOMAIN poll.options :
              i # j => poll.options[i].text # poll.options[j].text
         /\ poll.closesAt > poll.createdAt

\* the request repeats an option text
RepeatsAText(dto) ==
  \E i, j \in DOMAIN dto.options : i # j /\ dto.options[i] = dto.options[j]

\* C20: a createPoll whose close time is not after the time it is checked
\* at, or whose options repeat a text, is answered 400 and writes nothing:
\* the request never enters the transaction, and the store never holds a
\* poll row or an option row of it
C20_InvalidCreateRejectedBeforeAnyWrite ==
  \A k \in CreateCalls :
    (/\ pcall[k].pc # "idle"
     /\ \/ pcall[k].dto.closesAt <= pcall[k].checkedAt
        \/ RepeatsAText(pcall[k].dto))
    => /\ pcall[k].pc = "done"
       /\ pcall[k].status = "BadRequest"
       /\ pcall[k].pollId = 0
       /\ NewPollId(k) \notin DOMAIN polls
       /\ \A q \in DOMAIN polls : \A i \in DOMAIN polls[q].options :
            \A n \in 1..MaxOptions :
              polls[q].options[i].id # NewOptionId(NewPollId(k), n)

\* one request with two distinct options was rejected for a close time equal
\* to the clock, another with a close time in the future for a repeated
\* option, and the store holds the polls it started with
C20_Witness ==
  \E k, j \in CreateCalls :
    /\ k # j
    /\ pcall[k].status = "BadRequest" /\ pcall[j].status = "BadRequest"
    /\ pcall[k].dto.closesAt = pcall[k].checkedAt
    /\ Len(pcall[k].dto.options) >= 2 /\ ~RepeatsAText(pcall[k].dto)
    /\ pcall[j].dto.closesAt > pcall[j].checkedAt
    /\ RepeatsAText(pcall[j].dto)
    /\ polls = StoredPolls

\* C21: the success response of castVote does not wait for the recomputation
\* or the publication.  The step that answers success publishes nothing and
\* leaves the broadcast at its first await, and a request whose insert
\* committed is answered with success whether or not its broadcast ever ends
C21_SuccessDoesNotWaitForBroadcast ==
  /\ [][\A c \in VoteCalls :
          (vcall[c].status # "OK" /\ vcall'[c].status = "OK")
            => /\ bcast'[c].pc = "findPoll"
               /\ voteEvents' = voteEvents]_vars
  /\ \A c \in VoteCalls : (vcall[c].pc = "saved") ~> (vcall[c].status = "OK")

\* a vote has been acknowledged, its recomputation is under way and no event
\* has been published
C21_Witness ==
  \E c \in VoteCalls :
    /\ vcall[c].status = "OK"
    /\ HasRow(c)
    /\ bcast[c].pc \in {"fetch", "compute"}
    /\ voteEvents = <<>>

\* C22: a stream request for a poll that does not exist fails with NotFound
\* before anything is written: no connected message, no subscription, no
\* heartbeat timer; and NotFound is the answer of such requests only
C22_MissingPollStreamsNothing ==
  \A s \in StreamCalls :
    /\ (scall[s].pc # "idle" /\ scall[s].pollId \notin DOMAIN polls)
         => /\ scall[s].written = <<>>
            /\ ~scall[s].subscription
            /\ ~scall[s].heartbeatTimer
            /\ scall[s].pc \in {"lookup", "done"}
            /\ scall[s].pc = "done" => scall[s].status = "NotFound"
    /\ scall[s].status = "NotFound" => scall[s].pollId \notin DOMAIN polls

\* a request for the missing poll was answered NotFound while a request for
\* an existing poll is streaming
C22_Witness ==
  \E s, q \in StreamCalls :
    /\ scall[s].pollId = MissingPoll /\ scall[s].status = "NotFound"
    /\ scall[s].pc = "done" /\ ~scall[s].open
    /\ scall[q].pc = "streaming" /\ Len(scall[q].written) >= 2

\* C23: in every reachable state every persisted vote references a poll of
\* the store and an option that is one of that poll's options
C23_VotesReferenceTheirPollsOptions ==
  \A i \in 1..Len(votes) :
    /\ votes[i].pollId \in DOMAIN polls
    /\ \E k \in DOMAIN polls[votes[i].pollId].options :
         polls[votes[i].pollId].options[k].id = votes[i].optionId

\* a vote is stored for an option of its own poll, and a request that
\* offered an option of another poll has been answered
C23_Witness ==
  /\ Len(votes) >= 1
  /\ \E c \in VoteCalls :
       /\ vcall[c].pc = "done"
       /\ vcall[c].pollId \in DOMAIN polls
       /\ \A k \in DOMAIN polls[vcall[c].pollId].options :
            polls[vcall[c].pollId].options[k].id # vcall[c].optionId

\* C24: the store only grows: no step of any operation changes or removes a
\* poll, an option or a vote that is already persisted
C24_StoreOnlyGrows ==
  [][/\ \A p \in DOMAIN polls : p \in DOMAIN polls' /\ polls'[p] = polls[p]
     /\ Len(votes') >= Len(votes)
     /\ SubSeq(votes', 1, Len(votes)) = votes]_vars

\* a poll has been created and a vote stored, a results request and the sweep
\* have run on the cache, and a stream is established
C24_Witness ==
  /\ \E k \in CreateCalls : pcall[k].status = "Created" /\ pcall[k].pollId \in DOMAIN polls
  /\ Len(votes) >= 1
  /\ \E r \in ResultCalls : rcall[r].pc = "done" /\ rcall[r].source = "fresh"
  /\ \E r \in ResultCalls : rcall[r].pc = "done" /\ rcall[r].pollId \notin DOMAIN cache
  /\ \E q \in StreamCalls : scall[q].pc = "streaming"

\* C25: a GET /results that returns the hidden variant leaves the cache as
\* it is, and in every reachable state the cache holds no entry for a poll
\* that hides its results and whose close time has not been reached
C25_HiddenBypassesCache ==
  /\ [](\A p \in DOMAIN cache :
          ~(polls[p].hideResultsUntilClose /\ now < polls[p].closesAt))
  /\ [][\A r \in ResultCalls :
          (rcall[r].pc = "findPoll" /\ rcall'[r].pc = "done"
             /\ IsHidden(rcall'[r].result))
            => /\ cache' = cache
               /\ rcall'[r].result =
                    [hidden |-> TRUE,
                     closesAt |-> ToISOString(polls[rcall[r].pollId].closesAt)]]_vars

\* a request was answered with the hidden variant before the close time
\* while the cache holds an entry of another poll and none of the hidden one
C25_Witness ==
  \E r \in ResultCalls :
    /\ rcall[r].pc = "done" /\ rcall[r].source = "hidden"
    /\ now < polls[rcall[r].pollId].closesAt
    /\ rcall[r].pollId \notin DOMAIN cache
    /\ cache # <<>>

\* C26: castVote evaluates its failure conditions in a fixed order.  A
\* missing poll gives NotFound; otherwise now >= closesAt gives Closed,
\* whatever the option and whether or not the voter has voted; otherwise an
\* option outside the poll gives NotFound, whether or not the voter has
\* voted; Conflict is given only by the insert, which a request reaches
\* only after passing the three checks
C26_FailureConditionsInFixedOrder ==
  [][\A c \in VoteCalls :
       /\ (vcall[c].pc = "idle" /\ vcall'[c] # vcall[c])
            => LET p == vcall'[c].pollId
                   answer == vcall'[c].status
               IN IF p \notin DOMAIN polls THEN answer = "NotFound"
                  ELSE IF now >= polls[p].closesAt THEN answer = "Closed"
                  ELSE IF \A k \in DOMAIN polls[p].options :
                            polls[p].options[k].id # vcall'[c].optionId
                    THEN answer = "NotFound"
                  ELSE answer = "none" /\ vcall'[c].pc = "save"
       /\ (vcall[c].status # "Conflict" /\ vcall'[c].status = "Conflict")
            => vcall[c].pc = "save"]_vars

\* a voter whose vote is stored retried after the close time and was
\* answered Closed
C26_Witness ==
  \E c, d \in VoteCalls :
    /\ c # d
    /\ vcall[c].status = "OK" /\ HasRow(c)
    /\ vcall[d].pollId = vcall[c].pollId /\ vcall[d].userUuid = vcall[c].userUuid
    /\ vcall[d].status = "Closed"

\* the number of votes on the poll of request c committed up to and
\* including the vote of request c
RankOfVote(c) ==
  LET i == CHOOSE i \in 1..Len(votes) :
             /\ votes[i].pollId = vcall[c].pollId
             /\ votes[i].userUuid = vcall[c].userUuid
  IN Len(FetchAllVotesForPoll(vcall[c].pollId, i))

\* C27: the event published by the broadcast of a successful vote on a poll
\* that shows its results carries a total that counts that vote: at least
\* the number of votes on the poll committed up to and including it
C27_EventIncludesItsVote ==
  [][\A c \in VoteCalls :
       (/\ bcast[c].outcome # "published" /\ bcast'[c].outcome = "published"
        /\ ~polls[vcall[c].pollId].hideResultsUntilClose)
       => voteEvents'[Len(voteEvents')].results.total >= RankOfVote(c)]_vars

\* C28: when two GET /results on the same poll that shows its results have
\* both missed the cache and are recomputing at the same time, the one that
\* finishes first returns the snapshot the other one is going to return, and
\* when the second one finishes the cache entry holds that snapshot too
C28_ConcurrentMissesAgree ==
  [][\A r, q \in ResultCalls :
       (/\ r # q
        /\ rcall[r].pollId = rcall[q].pollId
        /\ rcall[r].pc = "compute" /\ rcall'[r].pc = "done"
        /\ rcall[q].pc = "compute")
       => LET p == rcall[r].pollId
              other == ComputeResults(polls[p], FetchAllVotesForPoll(p, rcall[q].n), now)
          IN /\ rcall'[r].result = other
             /\ cache'[p].data = other]_vars

\* the votes on poll p committed more than one TTL before time t
VotesOlderThanTtl(p, t) ==
  Cardinality({i \in 1..Len(votes) :
                 votes[i].pollId = p /\ t - votes[i].createdAt > CacheTtl})

\* C29: an aggregate returned by a GET /results on a poll that shows its
\* results counts every vote of the poll committed more than one TTL before
\* the moment it is returned
C29_StalenessWithinOneTtl ==
  [][\A r \in ResultCalls :
       (/\ rcall[r].pc # "done" /\ rcall'[r].pc = "done"
        /\ rcall'[r].status = "OK"
        /\ ~polls[rcall[r].pollId].hideResultsUntilClose)
       => rcall'[r].result.total >= VotesOlderThanTtl(rcall[r].pollId, now)]_vars

\* C30: a GET /results on a poll that shows its results whose cache lookup
\* finds no entry, or an entry with now - computedAt > TTL, returns nothing
\* from the cache and discards the entry, reads the votes that are in the
\* store when its query runs, stores the value computed from them with the
\* time of the store as computedAt and returns that value; data served from
\* the cache is never older than the TTL
C30_MissRecomputesAndReplaces ==
  /\ [](\A r \in ResultCalls : rcall[r].source = "cache" => rcall[r].age <= CacheTtl)
  /\ [][\A r \in ResultCalls :
          LET p == rcall[r].pollId
          IN /\ (/\ rcall[r].pc = "findPoll" /\ rcall'[r] # rcall[r]
                 /\ ~(polls[p].hideResultsUntilClose /\ now < polls[p].closesAt)
                 /\ (p \notin DOMAIN cache \/ now - cache[p].timestamp > CacheTtl))
                => /\ rcall'[r].pc = "fetch"
                   /\ rcall'[r].result = NoResult
                   /\ p \notin DOMAIN cache'
             /\ (rcall[r].pc = "fetch" /\ rcall'[r] # rcall[r])
                  => rcall'[r].pc = "compute" /\ rcall'[r].n = Len(votes)
             /\ (rcall[r].pc = "compute" /\ rcall'[r] # rcall[r])
                  => /\ rcall'[r].pc = "done" /\ rcall'[r].source = "fresh"
                     /\ rcall'[r].result.total =
                          Cardinality({i \in 1..rcall[r].n : votes[i].pollId = p})
                     /\ p \in DOMAIN cache'
                     /\ cache'[p] = [data |-> rcall'[r].result, timestamp |-> now]]_vars

\* with no vote ever cast, a request has computed and stored the results of
\* a poll, and a later request found that entry expired, discarded it and is
\* reading the votes
C30_Witness ==
  \E r, q \in ResultCalls :
    /\ rcall[q].pc = "done" /\ rcall[q].source = "fresh"
    /\ rcall[r].pollId = rcall[q].pollId
    /\ rcall[r].pc = "fetch"
    /\ rcall[r].pollId \notin DOMAIN cache
    /\ \A c \in VoteCalls : vcall[c].pc = "idle"

\* C31: every castVote answered with success is followed by the end of its
\* broadcast, which publishes exactly one event, for the poll of the vote,
\* unless a query of the recomputation failed; a castVote that failed
\* starts no broadcast and publishes nothing
C31_OneEventPerSuccessfulVote ==
  /\ [](/\ Len(voteEvents) =
             Cardinality({c \in VoteCalls : bcast[c].outcome = "published"})
        /\ \A c \in VoteCalls :
             /\ bcast[c].pc # "none" => vcall[c].status = "OK"
             /\ (vcall[c].pc = "done" /\ vcall[c].status # "OK")
                  => bcast[c].pc = "none" /\ bcast[c].outcome = "none")
  /\ [][\A c \in VoteCalls :
          (bcast[c].outcome # "published" /\ bcast'[c].outcome = "published")
            => /\ Len(voteEvents') = Len(voteEvents) + 1
               /\ voteEvents'[Len(voteEvents')].pollId = vcall[c].pollId
               /\ SubSeq(voteEvents', 1, Len(voteEvents)) = voteEvents]_vars
  /\ [][voteEvents' # voteEvents
          => \E c \in VoteCalls :
               bcast[c].outcome # "published" /\ bcast'[c].outcome = "published"]_vars
  /\ \A c \in VoteCalls :
       (vcall[c].status = "OK") ~> (bcast[c].outcome \in {"published", "failed"})

\* one vote was answered with success and its event is published, the other
\* request was answered Conflict and published nothing
C31_Witness ==
  \E c, d \in VoteCalls :
    /\ vcall[c].status = "OK" /\ bcast[c].outcome = "published"
    /\ vcall[d].status = "Conflict" /\ bcast[d].pc = "none"
    /\ Len(voteEvents) = 1 /\ voteEvents[1].pollId = vcall[c].pollId

\* the value getCachedResults returns for poll p from the Map c at time t
Lookup(c, p, t) ==
  IF p \in DOMAIN c /\ t - c[p].timestamp <= CacheTtl THEN c[p].data ELSE NoResult

\* C32: a sweep removes exactly the entries older than the TTL and leaves the
\* others as they were, and at every moment the cache answers every lookup
\* as the cache of the same run without any sweep would, so every later
\* getResults returns the same value
C32_SweepIsExactAndUnobservable ==
  /\ [](\A p \in ReadPolls : Lookup(cache, p, now) = Lookup(unswept, p, now))
  /\ [][(cache' # cache /\ UNCHANGED <<vcall, bcast, rcall>>)
          => /\ DOMAIN cache' = {q \in DOMAIN cache : now - cache[q].timestamp <= CacheTtl}
             /\ \A q \in DOMAIN cache' : cache'[q] = cache[q]
             /\ unswept' = unswept]_vars

\* a sweep has removed an entry that the lazy deletion would still hold, and
\* a getResults for that poll is about to look the cache up
C32_Witness ==
  \E p \in DOMAIN unswept, r \in ResultCalls :
    /\ p \notin DOMAIN cache
    /\ rcall[r].pc = "findPoll"
    /\ rcall[r].pollId = p

\* the row castVote request c hands to the insert
RowOf(c) ==
  [pollId |-> vcall[c].pollId, userUuid |-> vcall[c].userUuid,
   optionId |-> vcall[c].optionId, createdAt |-> now]

\* C33: only the pair (poll, voter) is unique: the insert of a request is
\* rejected by the index exactly when a vote of the same voter in the same
\* poll is stored, so a vote of the voter in another poll, or of another
\* voter in the same poll, also one committing concurrently, does not stand
\* in its way; Conflict is answered only for a stored pair
C33_UniquenessIsPerPollAndVoter ==
  /\ [](\A c \in VoteCalls : vcall[c].pc = "save"
          => (Transaction(votes, RowOf(c)).error = "unique" <=> PairTaken(c)))
  /\ [][\A c \in VoteCalls :
          /\ (vcall[c].status # "Conflict" /\ vcall'[c].status = "Conflict") => PairTaken(c)
          /\ (vcall[c].pc = "save" /\ vcall'[c].pc = "saved")
               => /\ ~PairTaken(c)
                  /\ votes' = Append(votes, RowOf(c))]_vars

\* two voters' votes in the same poll are both committed while neither
\* request has been answered yet
C33_Witness ==
  /\ Len(votes) = 2
  /\ votes[1].pollId = votes[2].pollId
  /\ votes[1].userUuid # votes[2].userUuid
  /\ \A c \in VoteCalls : vcall[c].pc = "saved"

\* C34: a poll appears in the store in one step together with all the
\* options of its request, so a getPoll, castVote or getResults running at
\* any point of createPoll finds either no poll or the poll with every
\* option; a createPoll that is in its transaction or has failed in it has
\* left no poll and no option
C34_PollAndOptionsVisibleTogether ==
  /\ [](\A k \in CreateCalls :
          /\ NewPollId(k) \in DOMAIN polls
               => /\ pcall[k].status = "Created"
                  /\ polls[NewPollId(k)].options = CreatedPoll(pcall[k]).options
                  /\ Len(polls[NewPollId(k)].options) = Len(pcall[k].dto.options)
          /\ (pcall[k].pc \in {"transaction", "saveOptions"} \/ pcall[k].status = "Error")
               => NewPollId(k) \notin DOMAIN polls)
  /\ [][\A c \in VoteCalls :
          (vcall[c].pc = "idle" /\ vcall'[c].pc # "idle" /\ vcall'[c].pollId \in CreatedPolls)
            => (vcall'[c].status = "NotFound" <=> vcall'[c].pollId \notin DOMAIN polls)]_vars
  /\ [][\A r \in ResultCalls :
          /\ (rcall[r].pc = "idle" /\ rcall'[r].pc # "idle" /\ rcall'[r].pollId \in CreatedPolls)
               => (rcall'[r].status = "NotFound" <=> rcall'[r].pollId \notin DOMAIN polls)
          /\ (rcall[r].pc = "compute" /\ rcall'[r].pc = "done" /\ rcall[r].pollId \in CreatedPolls)
               => Len(rcall'[r].result.options) = Len(polls[rcall[r].pollId].options)]_vars

\* a vote and a results request for the poll were answered NotFound while
\* its createPoll was between the two saves of its transaction
C34_Witness ==
  \E k \in CreateCalls, c \in VoteCalls, r \in ResultCalls :
    /\ pcall[k].pc = "saveOptions"
    /\ vcall[c].pollId = NewPollId(k) /\ vcall[c].status = "NotFound"
    /\ rcall[r].pollId = NewPollId(k) /\ rcall[r].status = "NotFound"

\* C35: every stored vote was committed strictly before the close time of
\* its poll
C35_NoVoteCommittedAtOrAfterClose ==
  \A i \in 1..Len(votes) : votes[i].createdAt < polls[votes[i].pollId].closesAt

\* real aggregates of poll p have been delivered: a GET /results was
\* answered with them or an event carrying them was published
AggregatesDelivered(p) ==
  \/ \E r \in ResultCalls :
       rcall[r].pollId = p /\ rcall[r].status = "OK" /\ IsAggregate(rcall[r].result)
  \/ \E i \in 1..Len(voteEvents) :
       voteEvents[i].pollId = p /\ IsAggregate(voteEvents[i].results)

\* C36: for a poll that hides its results until it closes, no vote is
\* committed once real aggregates of the poll have been delivered
C36_NoVoteAfterAggregatesRevealed ==
  [][\A p \in DOMAIN polls :
       (/\ polls[p].hideResultsUntilClose
        /\ AggregatesDelivered(p)
        /\ Len(votes') > Len(votes))
       => votes'[Len(votes')].pollId # p]_vars

\* no castVote, broadcast or getResults is in flight, and no broadcast has
\* failed
Quiescent ==
  /\ \A c \in VoteCalls : vcall[c].pc \in {"idle", "done"}
  /\ \A c \in VoteCalls : bcast[c].pc \in {"none", "done"}
  /\ \A r \in ResultCalls : rcall[r].pc \in {"idle", "done"}
  /\ \A c \in VoteCalls : bcast[c].outcome # "failed"

\* the events published for poll p, in order
EventsOf(p) == SelectSeq(voteEvents, LAMBDA e : e.pollId = p)

\* C37: once every vote, broadcast and getResults in flight has completed,
\* for every poll that does not hide its results the cache entry, if there
\* is one, and the last event published for the poll, if there is one (the
\* most recent event a connection subscribed throughout has received),
\* have a total equal to the number of votes stored for the poll
C37_QuiescentCacheAndEventsAreCurrent ==
  \A p \in DOMAIN polls :
    (Quiescent /\ ~polls[p].hideResultsUntilClose)
    => /\ p \in DOMAIN cache => cache[p].data.total = VotesOfPoll(p)
       /\ EventsOf(p) # <<>> => EventsOf(p)[Len(EventsOf(p))].results.total = VotesOfPoll(p)

\* poll p hides its results now
HidesNow(p) == p \in DOMAIN polls /\ ShouldHideResults(polls[p], now)

VotesAmong(p, n) == Cardinality({i \in 1..n : votes[i].pollId = p})

\* the number of the first n stored votes that are for option o of poll p
VotesForOptionAmong(p, o, n) ==
  Cardinality({i \in 1..n : votes[i].pollId = p /\ votes[i].optionId = o})

\* C39: every cache entry is the aggregate of the votes its poll had at an
\* earlier moment (a prefix of the votes table): its total and its counts
\* are those of that prefix, so the total is at most the number of votes
\* stored for the poll now and each count at most the option's count now
C39_EntryIsAnEarlierAggregate ==
  \A p \in DOMAIN cache :
    /\ \E n \in 0..Len(votes) :
         /\ cache[p].data.total = VotesAmong(p, n)
         /\ \A k \in 1..OptionsPerPoll :
              /\ cache[p].data.options[k].optionId = polls[p].options[k].id
              /\ cache[p].data.options[k].count
                   = VotesForOptionAmong(p, polls[p].options[k].id, n)
    /\ cache[p].data.total <= VotesAmong(p, Len(votes))
    /\ \A k \in 1..OptionsPerPoll :
         cache[p].data.options[k].count
           <= VotesForOptionAmong(p, polls[p].options[k].id, Len(votes))

\* an entry holds the aggregate of an earlier vote set: its total is below
\* the number of votes the poll has now
C39_Witness ==
  \E p \in DOMAIN cache :
    /\ cache[p].data.total >= 1
    /\ cache[p].data.total < VotesAmong(p, Len(votes))

====
